---- MODULE Spec2Model ----
(***************************************************************************)
(* Session lifecycle of instagrapi's LoginMixin (mixins/auth.py): device   *)
(* identity, the login state machine, the settings store and the cookie    *)
(* derived accessors.                                                      *)
(*                                                                         *)
(* Python strings whose characters matter (cookie values, session ids,     *)
(* verification codes, identifiers) are sequences of code points; opaque   *)
(* strings (user name, password, user agent, descriptor fields) are TLA+   *)
(* strings.  A session object is the record Self; every method is an       *)
(* operator from a session record to a session record, and every action    *)
(* installs the record a whole call leaves behind.                         *)
(***************************************************************************)
EXTENDS Integers, Sequences, FiniteSets, TLC

VARIABLES settings, private_cookies, public_cookies, username, password,
          last_login, relogin_attempt, device_settings, user_agent,
          client_session_id, advertising_id, device_id, phone_id, uuid,
          now, file, op, result, reqs, before, relogin_calls, file_before,
          callers

vars == <<settings, private_cookies, public_cookies, username, password,
          last_login, relogin_attempt, device_settings, user_agent,
          client_session_id, advertising_id, device_id, phone_id, uuid,
          now, file, op, result, reqs, before, relogin_calls, file_before,
          callers>>

(* ---------------------------- bounds ----------------------------------- *)

\* the wall clock runs from 0 to MaxTime
MaxTime == 1

\* each of the concurrent callers calls relogin() at most MaxCalls times
MaxCalls == 2

(* ---------------------------- Python values ---------------------------- *)

\* None where a code-point string is expected
None == <<-1>>
\* None where an opaque string is expected
NoneT == "None"
\* None where a number is expected (user_id, last_login)
NoneInt == -1
\* None where a mapping is expected
NoneDict == [None |-> TRUE]

\* code points: 48..57 are the digits, 32 is the space
IsDigit(c) == c >= 48 /\ c <= 57
IsSpace(c) == c = 32

\* str.lstrip / str.rstrip / str.strip
RECURSIVE lstrip(_)
lstrip(s) == IF s # <<>> /\ IsSpace(Head(s)) THEN lstrip(Tail(s)) ELSE s

RECURSIVE rstrip(_)
rstrip(s) ==
    IF s # <<>> /\ IsSpace(s[Len(s)]) THEN rstrip(SubSeq(s, 1, Len(s) - 1)) ELSE s

strip(s) == rstrip(lstrip(s))

\* str(n) for n >= 0
RECURSIVE Decimal(_)
Decimal(n) == IF n < 10 THEN <<48 + n>> ELSE Decimal(n \div 10) \o <<48 + (n % 10)>>

\* the value of a non-empty string of digits
RECURSIVE DigitsValue(_)
DigitsValue(s) ==
    IF Len(s) = 1 THEN s[1] - 48
    ELSE 10 * DigitsValue(SubSeq(s, 1, Len(s) - 1)) + (s[Len(s)] - 48)

\* int(s) accepts surrounding whitespace; ValueError otherwise
IsIntLiteral(s) ==
    LET t == strip(s) IN t # <<>> /\ \A i \in 1..Len(t) : IsDigit(t[i])
int(s) == DigitsValue(strip(s))

\* str(x) of an int-or-None
StrOfInt(n) == IF n = NoneInt THEN <<78, 111, 110, 101>> ELSE Decimal(n)

\* re.search(r"^\d+", s): the longest leading run of digits, <<>> when no match
RECURSIVE LeadingDigits(_)
LeadingDigits(s) ==
    IF s # <<>> /\ IsDigit(Head(s)) THEN <<Head(s)>> \o LeadingDigits(Tail(s)) ELSE <<>>

\* n copies of the character c
RECURSIVE Repeat(_, _)
Repeat(c, n) == IF n = 0 THEN <<>> ELSE <<c>> \o Repeat(c, n - 1)

\* dict.get(key) with None as default, for dictionaries of code-point strings
Get(d, k) == IF k \in DOMAIN d THEN d[k] ELSE None
\* dict.get(key, default)
GetD(d, k, default) == IF k \in DOMAIN d THEN d[k] ELSE default
\* d[k] = v
Put(d, k, v) == [x \in DOMAIN d \cup {k} |-> IF x = k THEN v ELSE d[x]]
\* dict.update
Update(d, e) == [x \in DOMAIN d \cup DOMAIN e |-> IF x \in DOMAIN e THEN e[x] ELSE d[x]]
EmptyDict == [x \in {} |-> <<>>]

\* truthiness of a code-point string or None
Truthy(v) == v # None /\ v # <<>>

(* ---------------------------- identifiers ------------------------------ *)

\* the text of the k-th value drawn from uuid.uuid4()
UuidStr(k) == <<117>> \o Decimal(k)

\* "android-%s" % md5(str(t)).hexdigest()[:16]; the digest is kept symbolic
\* (one text per clock value)
DeviceIdAt(t) == <<97, 45>> \o Decimal(t)

(* ---------------------------- the session object ----------------------- *)

\* the object's fields, the wall clock and the uuid4 texts still held somewhere
Self ==
    [settings |-> settings, cookies |-> private_cookies,
     public_cookies |-> public_cookies,
     username |-> username, password |-> password, last_login |-> last_login,
     relogin_attempt |-> relogin_attempt, device_settings |-> device_settings,
     user_agent |-> user_agent, client_session_id |-> client_session_id,
     advertising_id |-> advertising_id, device_id |-> device_id,
     phone_id |-> phone_id, uuid |-> uuid, now |-> now,
     used |-> {client_session_id, advertising_id, phone_id, uuid}
              \cup (IF "uuids" \in DOMAIN settings
                    THEN {settings["uuids"][k] : k \in DOMAIN settings["uuids"]} ELSE {})
              \cup {file.doc["uuids"][k] : k \in
                       (IF "uuids" \in DOMAIN file.doc THEN DOMAIN file.doc["uuids"] ELSE {})}]

\* requests.utils.cookiejar_from_dict / dict_from_cookiejar / cookies.get_dict():
\* a jar of one domain is the flat mapping name -> value; each call builds a new
\* mapping
cookiejar_from_dict(d) == d
dict_from_cookiejar(jar) == jar
cookie_dict(s) == dict_from_cookiejar(s.cookies)

sessionid(s) == Get(cookie_dict(s), "sessionid")
token(s) == Get(cookie_dict(s), "csrftoken")

\* user_id: int(ds_user_id) raises ValueError on a value that is no number
user_id_raises(s) ==
    LET v == Get(cookie_dict(s), "ds_user_id") IN Truthy(v) /\ ~IsIntLiteral(v)
user_id(s) ==
    LET v == Get(cookie_dict(s), "ds_user_id") IN IF Truthy(v) THEN int(v) ELSE NoneInt

rank_token(s) == StrOfInt(user_id(s)) \o <<95>> \o s.uuid

\* generate_uuid: a value of uuid4 no one holds yet
generate_uuid(used) ==
    UuidStr(CHOOSE k \in 1..(Cardinality(used) + 1) :
                /\ UuidStr(k) \notin used
                /\ \A j \in 1..(k - 1) : UuidStr(j) \in used)

generate_device_id(s) == DeviceIdAt(s.now)

\* set_uuids: the defaults are generated whether or not they are used
set_uuids(s, uuids) ==
    LET g1 == generate_uuid(s.used)
        g2 == generate_uuid(s.used \cup {g1})
        g3 == generate_uuid(s.used \cup {g1, g2})
        g4 == generate_uuid(s.used \cup {g1, g2, g3})
    IN  [s EXCEPT !.phone_id = GetD(uuids, "phone_id", g1),
                  !.uuid = GetD(uuids, "uuid", g2),
                  !.client_session_id = GetD(uuids, "client_session_id", g3),
                  !.advertising_id = GetD(uuids, "advertising_id", g4),
                  !.device_id = GetD(uuids, "device_id", generate_device_id(s)),
                  !.used = @ \cup {g1, g2, g3, g4}]

DefaultDevice ==
    [app_version |-> "169.3.0.30.135", android_version |-> 26,
     android_release |-> "8.0.0", dpi |-> "640dpi", resolution |-> "1440x2560",
     manufacturer |-> "Xiaomi", device |-> "MI 5s", model |-> "capricorn",
     cpu |-> "qcom", version_code |-> "264009049"]

TruthyDict(d) == d # NoneDict /\ DOMAIN d # {}

set_device(s, device) ==
    LET dev == IF TruthyDict(device) THEN device ELSE DefaultDevice
        s1 == [s EXCEPT !.device_settings = dev,
                        !.settings = Put(@, "device_settings", dev)]
    IN  set_uuids(s1, EmptyDict)

\* config.USER_AGENT_BASE.format(**device_settings)
USER_AGENT_BASE(d) ==
    "Instagram " \o d.app_version \o " Android (" \o ToString(d.android_version)
    \o "/" \o d.android_release \o "; " \o d.dpi \o "; " \o d.resolution \o "; "
    \o d.manufacturer \o "; " \o d.model \o "; " \o d.device \o "; " \o d.cpu
    \o "; en_US; " \o d.version_code \o ")"

set_user_agent(s, ua) ==
    LET agent == IF ua # NoneT /\ ua # "" THEN ua ELSE USER_AGENT_BASE(s.device_settings)
        s1 == [s EXCEPT !.user_agent = agent,
                        !.settings = Put(@, "user_agent", agent)]
    IN  set_uuids(s1, EmptyDict)

init(s) ==
    LET s1 == IF "cookies" \in DOMAIN s.settings
              THEN [s EXCEPT !.cookies = cookiejar_from_dict(s.settings["cookies"])]
              ELSE s
        s2 == [s1 EXCEPT !.last_login = GetD(s1.settings, "last_login", NoneInt)]
        s3 == set_device(s2, GetD(s2.settings, "device_settings", NoneDict))
        s4 == set_user_agent(s3, GetD(s3.settings, "user_agent", NoneT))
    IN  set_uuids(s4, GetD(s4.settings, "uuids", EmptyDict))

get_settings(s) ==
    [uuids |-> [phone_id |-> s.phone_id, uuid |-> s.uuid,
                client_session_id |-> s.client_session_id,
                advertising_id |-> s.advertising_id, device_id |-> s.device_id],
     cookies |-> dict_from_cookiejar(s.cookies),
     last_login |-> s.last_login,
     device_settings |-> s.device_settings,
     user_agent |-> s.user_agent]

\* mutant of set_settings: new settings renew the identifiers, as a new device
\* or user agent does
set_settings_renewing(s, d) == set_uuids([s EXCEPT !.settings = d], EmptyDict)

set_settings(s, d) == [s EXCEPT !.settings = d]

(* ---------------------------- the transport ---------------------------- *)

\* what one private_request can do: return a non-empty result ("ok"), return an
\* empty result ("falsy"), or raise one of the domain errors
TransportErrors == {"PleaseWaitFewMinutes", "TwoFactorRequired", "PrivateError"}

\* a call in progress: the session, the requests issued so far with their
\* outcomes, the exception in flight ("" when none) with its message parts, the
\* value returned ("" while running), and the result of the last request
Enter(s) == [s |-> s, reqs |-> <<>>, exc |-> "", msg |-> <<>>, ret |-> "", logged |-> FALSE]
Done(c) == c.exc # "" \/ c.ret # ""
Raise(c, e, m) == [c EXCEPT !.exc = e, !.msg = m]
Return(c, v) == [c EXCEPT !.ret = v]

\* private_request(endpoint, ...): the request is logged; an error outcome is
\* raised; the cookies of a non-empty response are stored in the private jar
private_request(c, endpoint, out, set_cookie) ==
    IF Done(c) THEN c
    ELSE [c EXCEPT !.reqs = Append(@, [ep |-> endpoint, out |-> out]),
                   !.exc = IF out \in TransportErrors THEN out ELSE "",
                   !.msg = IF out \in TransportErrors THEN <<out>> ELSE <<>>,
                   !.logged = (out = "ok"),
                   !.s.cookies = IF out = "ok" THEN Update(@, set_cookie) ELSE @]

(* ---------------------------- pre- and post-login flow ----------------- *)

set_contact_point_prefill(c, out) ==
    private_request(c, "accounts/contact_point_prefill/", out, EmptyDict)
get_prefill_candidates(c, out) ==
    private_request(c, "accounts/get_prefill_candidates/", out, EmptyDict)
sync_launcher(c, out) == private_request(c, "launcher/sync/", out, EmptyDict)
sync_device_features(c, out) == private_request(c, "qe/sync/", out, EmptyDict)

\* mutant of pre_login_flow: the launcher is synchronised before the contact
\* point is prefilled
pre_login_flow_launcher_first(c, pre) ==
    sync_device_features(
        set_contact_point_prefill(
            get_prefill_candidates(
                set_contact_point_prefill(
                    sync_launcher(c, pre[1]), pre[2]), pre[3]), pre[4]), pre[5])

\* pre_login_flow: five requests, the first error ends the flow
pre_login_flow(c, pre) ==
    sync_device_features(
        sync_launcher(
            set_contact_point_prefill(
                get_prefill_candidates(
                    set_contact_point_prefill(c, pre[1]), pre[2]), pre[3]), pre[4]), pre[5])

get_timeline_feed(c, out) == private_request(c, "feed/timeline/", out, EmptyDict)
get_reels_tray_feed(c, out) == private_request(c, "feed/reels_tray/", out, EmptyDict)

\* login_flow: both feeds are fetched whatever the first returns; the value
\* all(check_flow) is dropped by login
login_flow(c, p1, p2) == get_reels_tray_feed(get_timeline_feed(c, p1), p2)

(* ---------------------------- login ------------------------------------ *)

TwoFactorHint == "(you did not provide verification_code for login method)"

\* lines 324-326
login_enter(s, u, p) == Enter(init([s EXCEPT !.username = u, !.password = p]))

\* mutant of relogin_guard: the guard lets a third attempt through
relogin_guard_allows_three(c, relogin) ==
    IF Done(c) \/ ~relogin THEN c
    ELSE LET c1 == [c EXCEPT !.s.cookies = EmptyDict]
         IN  IF c1.s.relogin_attempt > 2
             THEN Raise(c1, "ReloginAttemptExceeded", <<"ReloginAttemptExceeded">>)
             ELSE [c1 EXCEPT !.s.relogin_attempt = @ + 1]

\* lines 327-331
relogin_guard(c, relogin) ==
    IF Done(c) \/ ~relogin THEN c
    ELSE LET c1 == [c EXCEPT !.s.cookies = EmptyDict]
         IN  IF c1.s.relogin_attempt > 1
             THEN Raise(c1, "ReloginAttemptExceeded", <<"ReloginAttemptExceeded">>)
             ELSE [c1 EXCEPT !.s.relogin_attempt = @ + 1]

\* lines 335-336: "if self.user_id" is false for None and for 0
already_login(c) ==
    IF Done(c) THEN c
    ELSE IF user_id_raises(c.s) THEN Raise(c, "ValueError", <<"ValueError">>)
    ELSE IF user_id(c.s) # NoneInt /\ user_id(c.s) # 0 THEN Return(c, "True")
    ELSE c

\* mutant of pre_login: the rate-limit error of the pre-login flow is not caught
pre_login_propagating(c, pre) == IF Done(c) THEN c ELSE pre_login_flow(c, pre)

\* lines 337-342
pre_login(c, pre) ==
    IF Done(c) THEN c
    ELSE LET c1 == pre_login_flow(c, pre)
         IN  IF c1.exc = "PleaseWaitFewMinutes"
             THEN [c1 EXCEPT !.exc = "", !.msg = <<>>]
             ELSE c1

\* mutant of submit: the verification code is tested without strip()
submit_unstripped(c, vc, sc) ==
    IF Done(c) THEN c
    ELSE LET c1 == private_request(c, "accounts/login/", sc.login, sc.set_cookie)
         IN  IF c1.exc = "TwoFactorRequired"
             THEN IF vc = <<>>
                  THEN Raise(c1, "TwoFactorRequired", c1.msg \o <<TwoFactorHint>>)
                  ELSE private_request([c1 EXCEPT !.exc = "", !.msg = <<>>],
                                       "accounts/two_factor_login/", sc.tf, sc.set_cookie)
             ELSE c1

\* lines 343-377: password_encrypt is an opaque capability
submit(c, vc, sc) ==
    IF Done(c) THEN c
    ELSE LET c1 == private_request(c, "accounts/login/", sc.login, sc.set_cookie)
         IN  IF c1.exc = "TwoFactorRequired"
             THEN IF strip(vc) = <<>>
                  THEN Raise(c1, "TwoFactorRequired", c1.msg \o <<TwoFactorHint>>)
                  ELSE private_request([c1 EXCEPT !.exc = "", !.msg = <<>>],
                                       "accounts/two_factor_login/", sc.tf, sc.set_cookie)
             ELSE c1

\* mutant of finish: login returns what login_flow returns (all(check_flow))
finish_returns_flow(c, sc) ==
    IF Done(c) THEN c
    ELSE IF c.logged
         THEN LET c1 == login_flow(c, sc.p1, sc.p2)
              IN  IF Done(c1) THEN c1
                  ELSE IF sc.p1 = "ok" /\ sc.p2 = "ok"
                       THEN Return([c1 EXCEPT !.s.last_login = c1.s.now], "True")
                       ELSE Return(c1, "False")
         ELSE Return(c, "False")

\* mutant of finish: a successful login starts the relogin count again
finish_resets_attempts(c, sc) ==
    IF Done(c) THEN c
    ELSE IF c.logged
         THEN LET c1 == login_flow(c, sc.p1, sc.p2)
              IN  IF Done(c1) THEN c1
                  ELSE Return([c1 EXCEPT !.s.last_login = c1.s.now,
                                         !.s.relogin_attempt = 0], "True")
         ELSE Return(c, "False")

\* mutant of finish: a rate limit of the post-login flow is swallowed as it is
\* in the pre-login flow
finish_swallows_rate_limit(c, sc) ==
    IF Done(c) THEN c
    ELSE IF c.logged
         THEN LET c1 == login_flow(c, sc.p1, sc.p2)
              IN  IF Done(c1) /\ c1.exc # "PleaseWaitFewMinutes" THEN c1
                  ELSE Return([c1 EXCEPT !.exc = "", !.msg = <<>>,
                                         !.s.last_login = c1.s.now], "True")
         ELSE Return(c, "False")

\* lines 378-382
finish(c, sc) ==
    IF Done(c) THEN c
    ELSE IF c.logged
         THEN LET c1 == login_flow(c, sc.p1, sc.p2)
              IN  IF Done(c1) THEN c1
                  ELSE Return([c1 EXCEPT !.s.last_login = c1.s.now], "True")
         ELSE Return(c, "False")

\* mutant of login: the attempt counter is tested after the pre-login flow
login_guard_after_flow(s, u, p, relogin, vc, sc) ==
    finish(submit(relogin_guard(pre_login(already_login(login_enter(s, u, p)), sc.pre),
                                relogin), vc, sc), sc)

login(s, u, p, relogin, vc, sc) ==
    finish(submit(pre_login(already_login(relogin_guard(login_enter(s, u, p), relogin)),
                            sc.pre), vc, sc), sc)

relogin(s, sc) == login(s, s.username, s.password, TRUE, <<>>, sc)

(* ---------------------------- login_by_sessionid ----------------------- *)

\* self.cookie_dict[name] = value: cookie_dict is get_dict(), a mapping built
\* for the caller, so the assignment changes that mapping and not the jar
cookie_dict_assign(s, name, value) ==
    LET changed == Put(cookie_dict(s), name, value) IN s

\* user_info_v1(pk), and user_short_gql(pk) when it raises a PrivateError; the
\* user found has the key asked for
user_lookup(c, pk, lk) ==
    LET c1 == private_request(c, "users/info/", lk.v1, lk.set_cookie)
    IN  IF c1.exc = "PrivateError"
        THEN LET c2 == [c1 EXCEPT !.exc = "", !.msg = <<>>]
             IN  IF lk.gql = "ok"
                 THEN [c2 EXCEPT !.reqs = Append(@, [ep |-> "graphql/user_short/", out |-> "ok"])]
                 ELSE Raise([c2 EXCEPT !.reqs = Append(@, [ep |-> "graphql/user_short/",
                                                          out |-> lk.gql])],
                            lk.gql, <<lk.gql>>)
        ELSE c1

login_by_sessionid(s, sid, lk) ==
    IF ~(Len(sid) > 30)
    THEN Raise(Enter(s), "AssertionError", <<"Invalid sessionid">>)
    ELSE LET s1 == init([s EXCEPT !.settings = [cookies |-> [sessionid |-> sid]]])
             m == LeadingDigits(sid)
         IN  IF m = <<>>
             THEN Raise(Enter(s1), "AttributeError", <<"AttributeError">>)
             ELSE LET c == user_lookup(Enter(s1), int(m), lk)
                  IN  IF Done(c) THEN c
                      ELSE Return([c EXCEPT !.s = cookie_dict_assign(
                                                      [c.s EXCEPT !.username = lk.username],
                                                      "ds_user_id", Decimal(int(m)))],
                                  "True")

(* ---------------------------- settings files --------------------------- *)

\* json.dump fails on a value it cannot encode; the only values of a snapshot
\* that are not strings, numbers or null are those a caller puts into a device
\* descriptor (here: under the key "extra")
JsonEncodable(doc) == "extra" \notin DOMAIN doc.device_settings

NoFile == [state |-> "absent", doc |-> EmptyDict]

\* load_settings: open, json.load, set_settings; returns self.settings
load_settings(c, f) ==
    IF f.state = "absent" THEN Raise(c, "FileNotFoundError", <<"FileNotFoundError">>)
    ELSE IF f.state = "partial" THEN Raise(c, "JSONDecodeError", <<"JSONDecodeError">>)
    ELSE Return([c EXCEPT !.s = set_settings(c.s, f.doc)], "settings")

\* dump_settings: open(path, 'w') empties the file, then json.dump writes the
\* snapshot; the values of a snapshot are JSON values and are stored as they are
dump_settings_file(s) ==
    IF JsonEncodable(get_settings(s))
    THEN [state |-> "complete", doc |-> get_settings(s)]
    ELSE [state |-> "partial", doc |-> EmptyDict]
dump_settings(c) ==
    IF JsonEncodable(get_settings(c.s)) THEN Return(c, "True")
    ELSE Raise(c, "TypeError", <<"TypeError">>)

(* ---------------------------- inputs ----------------------------------- *)

Usernames == {"alice"}
Passwords == {"secret"}

\* verification codes: "", " " and "12"
Codes == {<<>>, <<32>>, <<49, 50>>}

\* the session id the server gives user 7: "7" and thirty letters
ServerSid == <<55>> \o Repeat(97, 30)
\* the cookies of the response to a successful credential submission, and what
\* the response to a user lookup may store in the jar
LoggedInCookies == [sessionid |-> ServerSid, ds_user_id |-> <<55>>, csrftoken |-> <<116>>]
ServerCookies == {EmptyDict, LoggedInCookies}

\* session ids given to login_by_sessionid: valid, too short, without a user id
SessionIds == {ServerSid, <<55, 97>>, Repeat(97, 31)}

\* the user agent a client may have stored
StoredAgent == "Instagram 100.0 Android"

\* a settings document saved by a logged-in session of user 8
DocLoggedIn ==
    [uuids |-> [phone_id |-> UuidStr(91), uuid |-> UuidStr(92),
                client_session_id |-> UuidStr(93), advertising_id |-> UuidStr(94),
                device_id |-> <<97, 45, 57>>],
     cookies |-> [sessionid |-> <<56>> \o Repeat(98, 30), ds_user_id |-> <<56>>,
                  csrftoken |-> <<99>>],
     last_login |-> 0,
     device_settings |-> DefaultDevice,
     user_agent |-> StoredAgent]

SettingsInputs == {EmptyDict, DocLoggedIn}
InitialFiles == {NoFile, [state |-> "complete", doc |-> DocLoggedIn]}

\* transport behaviours of one login call: the outcome of each pre-login
\* request (the ones after the first error are never issued), of the
\* credential submission, of the two-factor submission and of the two
\* post-login requests, and the verification code of the caller.  Outcomes the
\* call cannot consume are fixed, and a behaviour has an error before the
\* submission or after it, not both (the code after the pre-login phase does
\* not read what happened in it).
OkPre == [i \in 1..5 |-> "ok"]
PreScripts ==
    {OkPre} \cup {[OkPre EXCEPT ![i] = e] : i \in 1..5, e \in {"PleaseWaitFewMinutes", "PrivateError"}}
LoginOutcomes == {"ok", "falsy", "TwoFactorRequired", "PleaseWaitFewMinutes", "PrivateError"}
TwoFactorOutcomes == {"ok", "falsy", "PleaseWaitFewMinutes", "PrivateError"}
PostOutcomes == {"ok", "falsy", "PleaseWaitFewMinutes"}

Succeeds(sc) ==
    \/ sc.login = "ok"
    \/ sc.login = "TwoFactorRequired" /\ strip(sc.vc) # <<>> /\ sc.tf = "ok"

Scripts ==
    {sc \in [pre : PreScripts, login : LoginOutcomes, tf : TwoFactorOutcomes,
             p1 : PostOutcomes, p2 : PostOutcomes, set_cookie : {LoggedInCookies},
             vc : Codes] :
        /\ (sc.login # "TwoFactorRequired" => sc.tf = "ok" /\ sc.vc = <<>>)
        /\ (strip(sc.vc) = <<>> => sc.tf = "ok")
        /\ (~Succeeds(sc) => sc.p1 = "ok" /\ sc.p2 = "ok")
        /\ (sc.p1 = "PleaseWaitFewMinutes" => sc.p2 = "ok")
        /\ (sc.pre # OkPre => sc.p1 = "ok" /\ sc.p2 = "ok")
        /\ ((\E i \in 1..5 : sc.pre[i] = "PrivateError")
               => sc.login = "ok" /\ sc.p1 = "ok" /\ sc.p2 = "ok")}

\* a call that ends before its first request reads no transport behaviour
QuietScript ==
    [pre |-> OkPre, login |-> "ok", tf |-> "ok", p1 |-> "ok", p2 |-> "ok",
     set_cookie |-> LoggedInCookies, vc |-> <<>>]

\* behaviours of the user lookup of login_by_sessionid
Lookups ==
    {lk \in [v1 : {"ok", "PrivateError"}, gql : {"ok", "ClientError"},
             set_cookie : ServerCookies, username : Usernames] :
        /\ (lk.v1 = "ok" => lk.gql = "ok")
        /\ (lk.v1 # "ok" => lk.set_cookie = EmptyDict)}

(* ---------------------------- the state machine ------------------------ *)

\* the class attributes and __init__, with the (empty) settings mapping the
\* composing client stores
Blank ==
    [settings |-> EmptyDict, cookies |-> EmptyDict, public_cookies |-> EmptyDict,
     username |-> NoneT, password |-> NoneT, last_login |-> NoneInt,
     relogin_attempt |-> 0, device_settings |-> EmptyDict, user_agent |-> NoneT,
     client_session_id |-> <<>>, advertising_id |-> <<>>, device_id |-> <<>>,
     phone_id |-> <<>>, uuid |-> <<>>, now |-> 0, used |-> {}]

\* construction ends with init()
Constructed == init(Blank)

Install(s) ==
    /\ settings' = s.settings
    /\ private_cookies' = s.cookies
    /\ public_cookies' = s.public_cookies
    /\ username' = s.username
    /\ password' = s.password
    /\ last_login' = s.last_login
    /\ relogin_attempt' = s.relogin_attempt
    /\ device_settings' = s.device_settings
    /\ user_agent' = s.user_agent
    /\ client_session_id' = s.client_session_id
    /\ advertising_id' = s.advertising_id
    /\ device_id' = s.device_id
    /\ phone_id' = s.phone_id
    /\ uuid' = s.uuid

Result(c) ==
    IF c.exc # "" THEN [kind |-> "raise", value |-> c.exc, msg |-> c.msg]
    ELSE [kind |-> "return", value |-> c.ret, msg |-> <<>>]

\* what a finished call leaves: the session, the operation, its result, the
\* requests it issued and the session it started from
Finish(name, flag, text, c) ==
    /\ Install(c.s)
    /\ op' = [name |-> name, relogin |-> flag, text |-> text]
    /\ result' = Result(c)
    /\ reqs' = c.reqs
    /\ before' = Self
    /\ file_before' = file
    /\ callers' = callers

Count(n) == IF n < 3 THEN n + 1 ELSE 3

\* the callers that run relogin() at the same time on the session, each with
\* its position in the call, the counter value it tested, the calls it made,
\* those of them that went on to the network and whether it ever incremented
\* a counter that was no longer the one it had tested
Callers == {1, 2}
NoCallers ==
    [t \in Callers |-> [pc |-> "idle", tested |-> NoneInt, calls |-> 0, sent |-> 0,
                        stale |-> FALSE]]

\* between two calls: the caller has taken the result of the last one
IdleOp == [name |-> "idle", relogin |-> FALSE, text |-> <<>>]
NoResult == [kind |-> "return", value |-> "None", msg |-> <<>>]
Idle == op = IdleOp

\* lines 324-336 end the call (ReloginAttemptExceeded, ValueError, already
\* logged in) before any request
EarlyExit(s, u, p, flag) ==
    Done(already_login(relogin_guard(login_enter(s, u, p), flag)))
ScriptsFor(s, u, p, flag) == IF EarlyExit(s, u, p, flag) THEN {QuietScript} ELSE Scripts

InitSession ==
    /\ settings = Constructed.settings
    /\ private_cookies = Constructed.cookies
    /\ public_cookies = Constructed.public_cookies
    /\ username = Constructed.username
    /\ password = Constructed.password
    /\ last_login = Constructed.last_login
    /\ relogin_attempt = Constructed.relogin_attempt
    /\ device_settings = Constructed.device_settings
    /\ user_agent = Constructed.user_agent
    /\ client_session_id = Constructed.client_session_id
    /\ advertising_id = Constructed.advertising_id
    /\ device_id = Constructed.device_id
    /\ phone_id = Constructed.phone_id
    /\ uuid = Constructed.uuid
    /\ now = 0
    /\ op = IdleOp
    /\ result = NoResult
    /\ reqs = <<>>
    /\ before = Blank
    /\ relogin_calls = 0
    /\ file_before = NoFile
    /\ callers = NoCallers

Init == InitSession /\ file = NoFile

\* a session beside a settings file that may exist already
InitStore == InitSession /\ file \in InitialFiles

Login ==
    /\ Idle
    /\ \E u \in Usernames, p \in Passwords, flag \in BOOLEAN :
         \E sc \in ScriptsFor(Self, u, p, flag) :
            /\ Finish("login", flag, sc.vc, login(Self, u, p, flag, sc.vc, sc))
            /\ relogin_calls' = IF flag THEN Count(relogin_calls) ELSE relogin_calls
            /\ UNCHANGED <<now, file>>

Relogin ==
    /\ Idle
    /\ \E sc \in ScriptsFor(Self, username, password, TRUE) :
            /\ sc.vc = <<>>
            /\ Finish("relogin", TRUE, <<>>, relogin(Self, sc))
            /\ relogin_calls' = Count(relogin_calls)
            /\ UNCHANGED <<now, file>>

LoginBySessionid ==
    /\ Idle
    /\ \E sid \in SessionIds, lk \in Lookups :
            /\ Finish("login_by_sessionid", FALSE, sid, login_by_sessionid(Self, sid, lk))
            /\ UNCHANGED <<now, file, relogin_calls>>

SetSettings ==
    /\ Idle
    /\ \E d \in SettingsInputs \cup {get_settings(Self)} :
            /\ Finish("set_settings", FALSE, <<>>,
                      Return(Enter(set_settings(Self, d)), "True"))
            /\ UNCHANGED <<now, file, relogin_calls>>

LoadSettings ==
    /\ Idle
    /\ Finish("load_settings", FALSE, <<>>, load_settings(Enter(Self), file))
    /\ UNCHANGED <<now, file, relogin_calls>>

DumpSettings ==
    /\ Idle
    /\ Finish("dump_settings", FALSE, <<>>, dump_settings(Enter(Self)))
    /\ file' = dump_settings_file(Self)
    /\ UNCHANGED <<now, relogin_calls>>

\* the caller takes the result; the next call can start
Resume ==
    /\ ~Idle
    /\ op' = IdleOp
    /\ result' = NoResult
    /\ reqs' = <<>>
    /\ before' = Blank
    /\ file_before' = NoFile
    /\ UNCHANGED <<settings, private_cookies, public_cookies, username, password,
                   last_login, relogin_attempt, device_settings, user_agent,
                   client_session_id, advertising_id, device_id, phone_id, uuid,
                   now, file, relogin_calls, callers>>

\* the wall clock advances between calls
Tick ==
    /\ Idle
    /\ now < MaxTime
    /\ now' = now + 1
    /\ UNCHANGED <<settings, private_cookies, public_cookies, username, password,
                   last_login, relogin_attempt, device_settings, user_agent,
                   client_session_id, advertising_id, device_id, phone_id, uuid,
                   file, op, result, reqs, before, relogin_calls, file_before,
                   callers>>

\* the login machine
Next ==
    \/ Login
    \/ Relogin
    \/ LoginBySessionid
    \/ SetSettings
    \/ Resume
    \/ Tick

Spec == Init /\ [][Next]_vars

\* the settings store
NextStore ==
    \/ LoginBySessionid
    \/ SetSettings
    \/ LoadSettings
    \/ DumpSettings
    \/ Resume
    \/ Tick

SpecStore == InitStore /\ [][NextStore]_vars

(* ---------------------------- accessors and helpers -------------------- *)

\* mutant of generate_jazoest: the code points are written one after the other
\* instead of being added up
RECURSIVE generate_jazoest_joined(_)
generate_jazoest_joined(symbols) ==
    IF symbols = <<>> THEN <<50>>
    ELSE generate_jazoest_joined(SubSeq(symbols, 1, Len(symbols) - 1))
             \o Decimal(symbols[Len(symbols)])

\* sum(ord(s) for s in symbols)
RECURSIVE amount(_)
amount(symbols) == IF symbols = <<>> THEN 0 ELSE Head(symbols) + amount(Tail(symbols))

\* utils.generate_jazoest: f'2{amount}'
generate_jazoest(symbols) == <<50>> \o Decimal(amount(symbols))

\* mutant of inject_sessionid_to_public: the whole private jar is copied
inject_all_to_public(c) ==
    IF Truthy(sessionid(c.s))
    THEN Return([c EXCEPT !.s.public_cookies = Update(@, cookie_dict(c.s))], "True")
    ELSE Return(c, "False")

\* inject_sessionid_to_public: "if self.sessionid" is false for None and for ""
inject_sessionid_to_public(c) ==
    IF Truthy(sessionid(c.s))
    THEN Return([c EXCEPT !.s.public_cookies = Put(@, "sessionid", sessionid(c.s))], "True")
    ELSE Return(c, "False")

\* what a call of the user_id property gives its caller
user_id_result(s) ==
    IF user_id_raises(s)
    THEN [kind |-> "raise", value |-> "ValueError", msg |-> <<"ValueError">>]
    ELSE [kind |-> "return", value |-> IF user_id(s) = NoneInt THEN "None" ELSE "int",
          msg |-> <<>>, number |-> user_id(s)]

\* cookie values of at most two characters out of "7", "0", "a" and " "
CookieChars == {55, 48, 97, 32}
CookieValues ==
    {<<>>} \cup {<<a>> : a \in CookieChars}
           \cup {<<a, b>> : a \in CookieChars, b \in CookieChars}

\* private jars: any ds_user_id or none, beside no, an empty or a real session id
Jars ==
    LET ids == {EmptyDict} \cup {[ds_user_id |-> v] : v \in CookieValues}
        sids == {EmptyDict, [sessionid |-> <<>>], [sessionid |-> ServerSid]}
    IN  {Update(a, b) : a \in ids, b \in sids}

\* public jars: empty, with an older session id, with another cookie
PublicJars == {EmptyDict, [sessionid |-> <<56, 98>>], [mid |-> <<109>>]}

\* arguments of generate_jazoest: "12345" and the texts of at most three
\* characters out of "1", "a" and " "
Symbols ==
    LET cs == {49, 97, 32}
    IN  {<<49, 50, 51, 52, 53>>, <<>>} \cup {<<a>> : a \in cs}
           \cup {<<a, b>> : a \in cs, b \in cs}
           \cup {<<a, b, c>> : a \in cs, b \in cs, c \in cs}

\* a session whose jars hold what settings or responses have put there
InitAccessors ==
    /\ settings = Constructed.settings
    /\ private_cookies \in Jars
    /\ public_cookies \in PublicJars
    /\ username = Constructed.username
    /\ password = Constructed.password
    /\ last_login = Constructed.last_login
    /\ relogin_attempt = Constructed.relogin_attempt
    /\ device_settings = Constructed.device_settings
    /\ user_agent = Constructed.user_agent
    /\ client_session_id = Constructed.client_session_id
    /\ advertising_id = Constructed.advertising_id
    /\ device_id = Constructed.device_id
    /\ phone_id = Constructed.phone_id
    /\ uuid = Constructed.uuid
    /\ now = 0
    /\ file = NoFile
    /\ op = IdleOp
    /\ result = NoResult
    /\ reqs = <<>>
    /\ before = Blank
    /\ relogin_calls = 0
    /\ file_before = NoFile
    /\ callers = NoCallers

\* a finished call that issues no request and is no login
Answer(name, text, s, res) ==
    /\ Install(s)
    /\ op' = [name |-> name, relogin |-> FALSE, text |-> text]
    /\ result' = res
    /\ reqs' = <<>>
    /\ before' = Self
    /\ file_before' = file
    /\ UNCHANGED <<now, file, relogin_calls, callers>>

UserId == Idle /\ Answer("user_id", <<>>, Self, user_id_result(Self))

InjectSessionidToPublic ==
    /\ Idle
    /\ LET c == inject_sessionid_to_public(Enter(Self))
       IN  Answer("inject_sessionid_to_public", <<>>, c.s, Result(c))

GenerateJazoest ==
    /\ Idle
    /\ \E symbols \in Symbols :
          Answer("generate_jazoest", symbols, Self,
                 [kind |-> "return", value |-> "str", msg |-> <<>>,
                  text |-> generate_jazoest(symbols)])

NextAccessors ==
    \/ UserId
    \/ InjectSessionidToPublic
    \/ GenerateJazoest
    \/ Resume

SpecAccessors == InitAccessors /\ [][NextAccessors]_vars

(* ---------------------------- device identity -------------------------- *)

\* descriptors given to set_device: none (the default one is taken), the
\* default one, another phone, and one with a value json cannot encode
OtherDevice == [DefaultDevice EXCEPT !.manufacturer = "Google", !.device = "Pixel 3",
                                     !.model = "blueline"]
UnencodableDevice == Put(DefaultDevice, "extra", "object")
Devices == {NoneDict, DefaultDevice, OtherDevice, UnencodableDevice}

\* user agents given to set_user_agent: none (it is built from the descriptor)
\* and a stored one
Agents == {"", StoredAgent}

SetDevice ==
    /\ Idle
    /\ \E device \in Devices :
            /\ Finish("set_device", FALSE, <<>>,
                      Return(Enter(set_device(Self, device)), "True"))
            /\ UNCHANGED <<now, file, relogin_calls>>

SetUserAgent ==
    /\ Idle
    /\ \E agent \in Agents :
            /\ Finish("set_user_agent", FALSE, <<>>,
                      Return(Enter(set_user_agent(Self, agent)), "True"))
            /\ UNCHANGED <<now, file, relogin_calls>>

\* the device identity and the settings file
NextDevice ==
    \/ SetDevice
    \/ SetUserAgent
    \/ LoadSettings
    \/ DumpSettings
    \/ Resume
    \/ Tick

SpecDevice == InitStore /\ [][NextDevice]_vars

(* ---------------------------- concurrent relogin ----------------------- *)

\* mutant of attempt_exceeded: a third attempt is let through
attempt_exceeded_at_three(n) == n > 2

\* line 329: the test of the attempt counter
attempt_exceeded(n) == n > 1

\* what the transport does in an attempt of a concurrent caller: the
\* submission succeeds or returns an empty result
RaceScripts == {QuietScript, [QuietScript EXCEPT !.login = "falsy"]}

SessionVars ==
    <<settings, private_cookies, public_cookies, username, password, last_login,
      relogin_attempt, device_settings, user_agent, client_session_id,
      advertising_id, device_id, phone_id, uuid>>

\* the statements of login(relogin=True) run by caller t; another caller may
\* run between any two of them.  Lines 324-328: the arguments are stored,
\* init() runs and the jar is cleared
RaceEnter(t) ==
    /\ callers[t].pc = "idle"
    /\ callers[t].calls < MaxCalls
    /\ Install([login_enter(Self, username, password).s EXCEPT !.cookies = EmptyDict])
    /\ callers' = [callers EXCEPT ![t].pc = "test"]
    /\ UNCHANGED <<now, file, op, result, reqs, before, relogin_calls, file_before>>

\* lines 329-330: the counter is read and tested
RaceTest(t) ==
    /\ callers[t].pc = "test"
    /\ callers' =
          IF attempt_exceeded(relogin_attempt)
          THEN [callers EXCEPT ![t].pc = "idle", ![t].tested = relogin_attempt,
                               ![t].calls = @ + 1]
          ELSE [callers EXCEPT ![t].pc = "increment", ![t].tested = relogin_attempt]
    /\ UNCHANGED SessionVars
    /\ UNCHANGED <<now, file, op, result, reqs, before, relogin_calls, file_before>>

\* line 331: the counter is incremented
RaceIncrement(t) ==
    /\ callers[t].pc = "increment"
    /\ relogin_attempt' = relogin_attempt + 1
    /\ callers' = [callers EXCEPT ![t].pc = "network",
                                  ![t].stale = @ \/ relogin_attempt # callers[t].tested]
    /\ UNCHANGED <<settings, private_cookies, public_cookies, username, password,
                   last_login, device_settings, user_agent, client_session_id,
                   advertising_id, device_id, phone_id, uuid>>
    /\ UNCHANGED <<now, file, op, result, reqs, before, relogin_calls, file_before>>

\* lines 335-382: the rest of the call; it goes on to the network unless the
\* other caller has logged the session in meanwhile
RaceProceed(t) ==
    /\ callers[t].pc = "network"
    /\ \E sc \in RaceScripts :
          LET c == finish(submit(pre_login(already_login(Enter(Self)), sc.pre),
                                 sc.vc, sc), sc)
          IN  /\ Install(c.s)
              /\ callers' = [callers EXCEPT ![t].pc = "idle", ![t].calls = @ + 1,
                                            ![t].sent = IF c.reqs # <<>> THEN @ + 1 ELSE @]
    /\ UNCHANGED <<now, file, op, result, reqs, before, relogin_calls, file_before>>

NextRace ==
    \/ \E t \in Callers : RaceEnter(t)
    \/ \E t \in Callers : RaceTest(t)
    \/ \E t \in Callers : RaceIncrement(t)
    \/ \E t \in Callers : RaceProceed(t)

SpecRace == Init /\ [][NextRace]_vars

(* ---------------------------- reading a finished call ------------------ *)

IsLoginCall == op.name \in {"login", "relogin"}
Returned(v) == result.kind = "return" /\ result.value = v
Raised(e) == result.kind = "raise" /\ result.value = e
Requests(endpoint) == Cardinality({i \in 1..Len(reqs) : reqs[i].ep = endpoint})
PreLoginEndpoints ==
    {"accounts/contact_point_prefill/", "accounts/get_prefill_candidates/",
     "launcher/sync/", "qe/sync/"}
PostLoginEndpoints == {"feed/timeline/", "feed/reels_tray/"}

\* the jar holds a numeric ds_user_id
HasNumericUserId(cookies) ==
    "ds_user_id" \in DOMAIN cookies /\ IsIntLiteral(cookies["ds_user_id"])

(* ---------------------------- C1 --------------------------------------- *)

\* C1: a login(username, password) call with relogin=false on a session whose
\* cookie jar already holds a numeric ds_user_id issues no transport request
\* and returns true.
C1_LoggedInLoginIsSilent ==
    (op.name = "login" /\ ~op.relogin /\ HasNumericUserId(before.cookies))
        => (reqs = <<>> /\ Returned("True"))

(* ---------------------------- C2 --------------------------------------- *)

\* C2: on a freshly constructed session the first and the second relogin()
\* never raise ReloginAttemptExceeded and the third one raises it, whatever
\* the outcome of each login attempt (relogin_calls counts the calls made with
\* the relogin flag since construction).
C2_ThirdReloginRaises ==
    op.name = "relogin" =>
        (Raised("ReloginAttemptExceeded") <=> relogin_calls = 3)

C2_Witness ==
    /\ op.name = "relogin"
    /\ relogin_calls = 3
    /\ before.relogin_attempt = 2
    /\ Raised("ReloginAttemptExceeded")

(* ---------------------------- C3 --------------------------------------- *)

TwoFactorSignalled ==
    /\ IsLoginCall
    /\ \E i \in 1..Len(reqs) :
          reqs[i] = [ep |-> "accounts/login/", out |-> "TwoFactorRequired"]

\* the result of the (last) two-factor request decides the result of login: an
\* error is raised to the caller, an empty result returns false, a non-empty
\* one starts the post-login flow
TwoFactorDecides ==
    LET r == reqs[CHOOSE i \in 1..Len(reqs) : reqs[i].ep = "accounts/two_factor_login/"]
    IN  /\ (r.out \in TransportErrors => Raised(r.out))
        /\ (r.out = "falsy" => Returned("False"))
        /\ (r.out = "ok" => Requests("feed/timeline/") = 1 /\ ~Returned("False"))

NoCodeError ==
    /\ Raised("TwoFactorRequired")
    /\ \E i \in 1..Len(result.msg) : result.msg[i] = TwoFactorHint
    /\ Requests("accounts/two_factor_login/") = 0

\* C3 as stated: with an empty verification_code login raises TwoFactorRequired
\* with the hint and sends nothing to the two-factor endpoint; with a non-empty
\* one it sends exactly one two-factor request, whose result decides.
C3_Original ==
    TwoFactorSignalled =>
        IF op.text = <<>> THEN NoCodeError
        ELSE Requests("accounts/two_factor_login/") = 1 /\ TwoFactorDecides

\* C3 amended: the code that counts is the verification_code without its
\* surrounding whitespace: empty or blank raises, anything else is submitted
\* exactly once and decides.
C3_BlankCodeRaises ==
    TwoFactorSignalled =>
        IF strip(op.text) = <<>> THEN NoCodeError
        ELSE Requests("accounts/two_factor_login/") = 1 /\ TwoFactorDecides

C3_Witness ==
    /\ TwoFactorSignalled
    /\ op.text = <<49, 50>>
    /\ Requests("accounts/two_factor_login/") = 1
    /\ Returned("True")

(* ---------------------------- C4 --------------------------------------- *)

\* C4: after login_by_sessionid(sessionid) returned true the jar holds the
\* session id given and a ds_user_id equal to the key of the user looked up,
\* which the user_id accessor returns.
C4_SessionidLoginSeedsUserId ==
    (op.name = "login_by_sessionid" /\ Returned("True")) =>
        /\ sessionid(Self) = op.text
        /\ "ds_user_id" \in DOMAIN private_cookies
        /\ ~user_id_raises(Self)
        /\ user_id(Self) = int(LeadingDigits(op.text))

(* ---------------------------- C5 --------------------------------------- *)

\* C5: after load_settings(path) returned for a complete settings file, token,
\* sessionid, user_id and rank_token are those of the cookies (and uuid) of the
\* file, without any further call.
C5_LoadActivates ==
    (op.name = "load_settings" /\ result.kind = "return") =>
        LET loaded == [Self EXCEPT !.cookies = file.doc["cookies"],
                                   !.uuid = file.doc["uuids"]["uuid"]]
        IN  /\ token(Self) = token(loaded)
            /\ sessionid(Self) = sessionid(loaded)
            /\ user_id(Self) = user_id(loaded)
            /\ rank_token(Self) = rank_token(loaded)

(* ---------------------------- C6 --------------------------------------- *)

SettingsKeys == {"uuids", "cookies", "last_login", "device_settings", "user_agent"}

\* set_settings was just given the snapshot get_settings() had returned
RestoredSnapshot ==
    /\ op.name = "set_settings"
    /\ DOMAIN settings = SettingsKeys
    /\ settings = get_settings(before)

\* C6: s1 = get_settings(), set_settings(s1), s2 = get_settings() gives s2 equal
\* to s1 on all five keys, in every reachable session state.
C6_SnapshotRoundTrip ==
    RestoredSnapshot => \A k \in SettingsKeys : get_settings(Self)[k] = settings[k]

C6_Witness ==
    /\ RestoredSnapshot
    /\ HasNumericUserId(private_cookies)
    /\ last_login # NoneInt
    /\ get_settings(Self) = settings

(* ---------------------------- C7 --------------------------------------- *)

SubmissionSucceeded ==
    /\ IsLoginCall
    /\ \E i \in 1..Len(reqs) :
          /\ reqs[i].ep \in {"accounts/login/", "accounts/two_factor_login/"}
          /\ reqs[i].out = "ok"

PostLoginRaised ==
    \E i \in 1..Len(reqs) :
        reqs[i].ep \in PostLoginEndpoints /\ reqs[i].out \in TransportErrors

PostLoginDone ==
    /\ Requests("feed/timeline/") = 1
    /\ Requests("feed/reels_tray/") = 1
    /\ last_login = now
    /\ Returned("True")

PreLoginRateLimitedAt(i) ==
    /\ IsLoginCall
    /\ i \in 1..Len(reqs)
    /\ reqs[i].ep \in PreLoginEndpoints
    /\ reqs[i].out = "PleaseWaitFewMinutes"

\* C8: when a pre-login request raises PleaseWaitFewMinutes the error does not
\* reach the caller (an error the call raises comes from a later request) and
\* the credentials are submitted to the login endpoint exactly once, afterwards.
C8_PreLoginRateLimitSwallowed ==
    \A i \in 1..5 :
        PreLoginRateLimitedAt(i) =>
            /\ Requests("accounts/login/") = 1
            /\ Len(reqs) > i
            /\ reqs[i + 1].ep = "accounts/login/"
            /\ (result.kind = "raise" =>
                    \E j \in (i + 1)..Len(reqs) : reqs[j].out = result.value)

C8_Witness ==
    /\ PreLoginRateLimitedAt(3)
    /\ Requests("accounts/login/") = 1
    /\ Returned("True")

(* ---------------------------- C9 --------------------------------------- *)

\* C9: a login(relogin=true) or relogin() call that raises
\* ReloginAttemptExceeded has issued no transport request.
C9_ExceededBeforeNetwork ==
    (IsLoginCall /\ Raised("ReloginAttemptExceeded")) => reqs = <<>>

C9_Witness ==
    /\ op.name = "login"
    /\ op.relogin
    /\ Raised("ReloginAttemptExceeded")
    /\ reqs = <<>>

(* ---------------------------- C10 -------------------------------------- *)

\* C10: the relogin attempt counter starts at 0, never decreases, never exceeds
\* 2, and once it is 2 every later call with the relogin flag raises
\* ReloginAttemptExceeded.
C10_AttemptsOnlyGrow ==
    /\ relogin_attempt = 0
    /\ [](relogin_attempt \in 0..2)
    /\ [][relogin_attempt' >= relogin_attempt]_vars
    /\ [][(relogin_attempt = 2 /\ IsLoginCall' /\ op'.relogin)
             => (result'.kind = "raise" /\ result'.value = "ReloginAttemptExceeded")]_vars

C10_Witness ==
    /\ IsLoginCall
    /\ op.relogin
    /\ before.relogin_attempt = 2
    /\ HasNumericUserId(before.cookies)
    /\ relogin_attempt = 2
    /\ Raised("ReloginAttemptExceeded")

(* ---------------------------- C11 -------------------------------------- *)

\* C11: for every content of the cookie jar the user_id accessor does not
\* raise; it returns null when the jar has no ds_user_id, and a user id it
\* returns is the integer value of the ds_user_id cookie of the jar.
C11_UserIdNeverRaises ==
    op.name = "user_id" =>
        /\ result.kind = "return"
        /\ ("ds_user_id" \notin DOMAIN before.cookies => result.value = "None")
        /\ (result.value = "int" =>
                /\ HasNumericUserId(before.cookies)
                /\ result.number = DigitsValue(strip(before.cookies["ds_user_id"])))

(* ---------------------------- C13 -------------------------------------- *)

\* the jar holds a session id (an empty cookie value is none)
HasSessionId(cookies) == "sessionid" \in DOMAIN cookies /\ cookies["sessionid"] # <<>>

\* C13: inject_sessionid_to_public() returns false and changes nothing when the
\* private jar has no session id; otherwise it returns true and changes only
\* the sessionid of the public cookie scope, which becomes the private one.
C13_InjectOnlySessionid ==
    op.name = "inject_sessionid_to_public" =>
        IF HasSessionId(before.cookies)
        THEN /\ Returned("True")
             /\ public_cookies = Put(before.public_cookies, "sessionid",
                                     before.cookies["sessionid"])
             /\ [Self EXCEPT !.public_cookies = before.public_cookies] = before
        ELSE Returned("False") /\ Self = before

C13_Witness ==
    /\ op.name = "inject_sessionid_to_public"
    /\ Returned("True")
    /\ "ds_user_id" \in DOMAIN private_cookies
    /\ "mid" \in DOMAIN before.public_cookies
    /\ public_cookies = [mid |-> <<109>>, sessionid |-> ServerSid]

(* ---------------------------- C15 -------------------------------------- *)

\* the sum of the code points, added from the last character to the first
RECURSIVE CodePointSum(_)
CodePointSum(s) ==
    IF Len(s) = 0 THEN 0 ELSE CodePointSum(SubSeq(s, 1, Len(s) - 1)) + s[Len(s)]

\* t is the decimal rendering of n: digits only, no leading zero, value n
IsDecimalOf(t, n) ==
    /\ t # <<>>
    /\ \A i \in 1..Len(t) : IsDigit(t[i])
    /\ (Len(t) > 1 => t[1] # 48)
    /\ DigitsValue(t) = n

\* C15: generate_jazoest(s) is the character '2' followed by the decimal
\* rendering of the sum of the code points of s (so it depends on s only).
C15_JazoestIsTwoAndSum ==
    op.name = "generate_jazoest" =>
        /\ Len(result.text) >= 2
        /\ result.text[1] = 50
        /\ IsDecimalOf(Tail(result.text), CodePointSum(op.text))

C15_Witness ==
    /\ op.name = "generate_jazoest"
    /\ op.text = <<49, 50, 51, 52, 53>>
    /\ result.text = <<50, 50, 53, 53>>

(* ---------------------------- C12 -------------------------------------- *)

\* C12: each call set_device(D) replaces phone_id, uuid, client_session_id,
\* advertising_id and device_id by values different from those before the
\* call, whatever D is and however soon the call follows the last one.
C12_SetDeviceRenewsAll ==
    op.name = "set_device" =>
        /\ phone_id # before.phone_id
        /\ uuid # before.uuid
        /\ client_session_id # before.client_session_id
        /\ advertising_id # before.advertising_id
        /\ device_id # before.device_id

(* ---------------------------- C16 -------------------------------------- *)

\* C16: a login, relogin, set_user_agent, set_settings or load_settings call
\* that leaves the device descriptor as it was leaves device_id, phone_id,
\* uuid, client_session_id and advertising_id as they were.
C16_IdentifiersStable ==
    (/\ op.name \in {"login", "relogin", "set_user_agent", "set_settings", "load_settings"}
     /\ device_settings = before.device_settings) =>
        /\ device_id = before.device_id
        /\ phone_id = before.phone_id
        /\ uuid = before.uuid
        /\ client_session_id = before.client_session_id
        /\ advertising_id = before.advertising_id

(* ---------------------------- C19 -------------------------------------- *)

\* C19: when dump_settings(path) fails because the snapshot cannot be
\* serialized, the file at path is what it was before the call (complete with
\* the same content, or absent).
C19_FailedDumpKeepsFile ==
    (op.name = "dump_settings" /\ result.kind = "raise") => file = file_before

(* ---------------------------- C14 -------------------------------------- *)

\* the errors that tell the failure case of a login
LoginErrors ==
    {"PleaseWaitFewMinutes", "TwoFactorRequired", "ReloginAttemptExceeded", "PrivateError"}

\* C14: a login() call that does not end with the session authenticated (by
\* returning true) ends by raising one of the typed errors; it never returns
\* false.
C14_FailureIsTypedError ==
    (IsLoginCall /\ ~Returned("True")) =>
        (result.kind = "raise" /\ result.value \in LoginErrors)

(* ---------------------------- C17 -------------------------------------- *)

\* the call was not short-circuited and none of its requests raised an error
RanWithoutFailure ==
    /\ IsLoginCall
    /\ reqs # <<>>
    /\ \A i \in 1..Len(reqs) : reqs[i].out \notin TransportErrors

PreLoginOrder ==
    <<"accounts/contact_point_prefill/", "accounts/get_prefill_candidates/",
      "accounts/contact_point_prefill/", "launcher/sync/", "qe/sync/">>

\* C17: a login() call that is not short-circuited and in which no request
\* fails issues contact-point prefill, prefill-candidate lookup, contact-point
\* prefill, launcher sync, device-feature sync and then the credential
\* submission, each as often as listed; nothing is submitted before them.
C17_PreLoginOrder ==
    RanWithoutFailure =>
        /\ Len(reqs) >= 6
        /\ \A i \in 1..5 : reqs[i].ep = PreLoginOrder[i]
        /\ reqs[6].ep = "accounts/login/"
        /\ \A i \in 7..Len(reqs) :
              reqs[i].ep \notin PreLoginEndpoints \cup {"accounts/login/"}

C17_Witness ==
    /\ RanWithoutFailure
    /\ op.name = "login"
    /\ Len(reqs) = 8
    /\ Requests("accounts/contact_point_prefill/") = 2
    /\ Returned("True")

(* ---------------------------- C18 -------------------------------------- *)

SubmissionEndpoints == {"accounts/login/", "accounts/two_factor_login/"}

\* the i-th request went to an endpoint after the pre-login phase and raised
\* PleaseWaitFewMinutes
RateLimitedAfterPreLogin(i) ==
    /\ IsLoginCall
    /\ i \in 1..Len(reqs)
    /\ reqs[i].ep \in SubmissionEndpoints \cup PostLoginEndpoints
    /\ reqs[i].out = "PleaseWaitFewMinutes"

\* C18: PleaseWaitFewMinutes raised by the credential submission, by the
\* two-factor submission or by a post-login call reaches the caller as it is:
\* the request is the last one and was made once, last_login is the one of the
\* settings (it is not stamped) and login does not return.
C18_RateLimitPropagates ==
    \A i \in 1..9 :
        RateLimitedAfterPreLogin(i) =>
            /\ Raised("PleaseWaitFewMinutes")
            /\ result.msg = <<"PleaseWaitFewMinutes">>
            /\ i = Len(reqs)
            /\ Requests(reqs[i].ep) = 1
            /\ last_login = GetD(before.settings, "last_login", NoneInt)

C18_Witness ==
    /\ RateLimitedAfterPreLogin(8)
    /\ reqs[8].ep = "feed/reels_tray/"
    /\ now > 0
    /\ last_login = NoneInt
    /\ Raised("PleaseWaitFewMinutes")

(* ---------------------------- C20 -------------------------------------- *)

\* the relogin attempts of the session that went on to the network
Sent == callers[1].sent + callers[2].sent

\* some caller incremented a counter another caller had changed since the test
Raced == \E t \in Callers : callers[t].stale

\* C20: the test of the attempt counter and its increment are two steps.  As
\* long as no caller increments a counter that changed after its test, at most
\* two attempts reach the network and the counter stays within 2; the witness
\* is the interleaving in which both callers pass the guard on the same value
\* and a third attempt reaches the network.
C20_OnlyRaceExceedsTwo ==
    ~Raced => (Sent <= 2 /\ relogin_attempt <= 2)

C20_Witness ==
    /\ callers[1].tested = 1
    /\ callers[2].tested = 1
    /\ Raced
    /\ relogin_attempt = 3
    /\ Sent = 3

(* ---------------------------- C21 -------------------------------------- *)

\* a session id of at most 30 characters, or one that does not begin with the
\* digits of a user id
InvalidSessionId(sid) == Len(sid) <= 30 \/ LeadingDigits(sid) = <<>>

\* C21: login_by_sessionid called with an invalid session id raises an error
\* and leaves settings, cookie jar, identifiers and username as they were.
C21_InvalidSessionidChangesNothing ==
    (op.name = "login_by_sessionid" /\ InvalidSessionId(op.text)) =>
        /\ result.kind = "raise"
        /\ settings = before.settings
        /\ private_cookies = before.cookies
        /\ phone_id = before.phone_id
        /\ uuid = before.uuid
        /\ client_session_id = before.client_session_id
        /\ advertising_id = before.advertising_id
        /\ device_id = before.device_id
        /\ username = before.username

(* ---------------------------- C22 -------------------------------------- *)

\* the call returned true at the "already login" test, before any request
ShortCircuited == IsLoginCall /\ reqs = <<>> /\ Returned("True")

\* C22: a login() call short-circuited because the session is authenticated
\* already leaves the cookie jar, phone_id, uuid, client_session_id,
\* advertising_id, device_id and last_login as they were.
C22_ShortCircuitChangesNothing ==
    ShortCircuited =>
        /\ private_cookies = before.cookies
        /\ phone_id = before.phone_id
        /\ uuid = before.uuid
        /\ client_session_id = before.client_session_id
        /\ advertising_id = before.advertising_id
        /\ device_id = before.device_id
        /\ last_login = before.last_login

====
